---- MODULE Spec2Model ----
(***************************************************************************)
(* Bigram language model of src/homework/language_models.py:               *)
(* bigram_model (counting + Laplace smoothing), the lookup helpers         *)
(* _get_row / _get_prob, and the two constrained generators                *)
(* sequence_generator (greedy) and sequence_generator_plus (lookahead).    *)
(*                                                                         *)
(* A token is a Python str, modelled as a sequence of one-character        *)
(* strings.  A probability is an exact fraction <<n, d>> with d > 0.  A    *)
(* row (a Python dict, which enumerates in insertion order) is a sequence  *)
(* of <<token, probability>> items with distinct tokens; a table is a      *)
(* function from tokens to rows.  A log-probability is NegInf or the       *)
(* fraction whose natural logarithm it is (a sum of logs is the log of     *)
(* the product).                                                           *)
(***************************************************************************)
EXTENDS Integers, Sequences, FiniteSets, TLC

VARIABLES file, line_no, bigram_counts, prev_counts, vocab, bpc,
          bigram_probs, init_word, length, gen

vars == <<file, line_no, bigram_counts, prev_counts, vocab, bpc,
          bigram_probs, init_word, length, gen>>

build_vars == <<file, line_no, bigram_counts, prev_counts, vocab, bpc>>

input_vars == <<bigram_probs, init_word, length>>

\* ------------------------------------------------------------------ tokens

UNKNOWN == <<>>

INIT == <<"[", "I", "N", "I", "T", "]">>

\* string.punctuation, but for the backquote, which the TLA+ lexer does not
\* accept inside a string (no token of the model contains one)
punctuation ==
  {"!", "\"", "#", "$", "%", "&", "'", "(", ")", "*", "+", ",", "-", ".",
   "/", ":", ";", "<", "=", ">", "?", "@", "[", "\\", "]", "^", "_",
   "{", "|", "}", "~"}

\* the whitespace str.strip() and str.split() cut at
whitespace == {" ", "\t", "\n", "\r", "\f"}

Range(s) == {s[i] : i \in 1..Len(s)}

EmptyMap == [x \in {} |-> 0]

_is_punct(tok) == tok # <<>> /\ \A i \in 1..Len(tok) : tok[i] \in punctuation

\* ------------------------------------------------------------ fractions

Zero == <<0, 1>>

One == <<1, 1>>

IsZero(p) == p[1] = 0

Less(p, q) == p[1] * q[2] < q[1] * p[2]

Same(p, q) == p[1] * q[2] = q[1] * p[2]

Times(p, q) == <<p[1] * q[1], p[2] * q[2]>>

\* ------------------------------------------------------------- the rows

Keys(row) == {row[i][1] : i \in 1..Len(row)}

\* row[k] for a key k of the row
Val(row, k) == row[CHOOSE i \in 1..Len(row) : row[i][1] = k][2]

\* ------------------------------------------------- str.strip, str.split

RECURSIVE lstrip(_)
lstrip(s) == IF s # <<>> /\ Head(s) \in whitespace THEN lstrip(Tail(s)) ELSE s

RECURSIVE rstrip(_)
rstrip(s) ==
  IF s # <<>> /\ s[Len(s)] \in whitespace
  THEN rstrip(SubSeq(s, 1, Len(s) - 1)) ELSE s

strip(s) == rstrip(lstrip(s))

\* the length of the first word of s, s starting with a non-blank
RECURSIVE wordlen(_)
wordlen(s) ==
  IF s = <<>> \/ Head(s) \in whitespace THEN 0 ELSE 1 + wordlen(Tail(s))

RECURSIVE split(_)
split(s) ==
  LET t == lstrip(s)
      n == wordlen(t)
  IN IF t = <<>> THEN <<>>
     ELSE <<SubSeq(t, 1, n)>> \o split(SubSeq(t, n + 1, Len(t)))

\* "for line in f": the lines of a text, each with its line terminator
RECURSIVE linelen(_)
linelen(s) ==
  IF s = <<>> THEN 0 ELSE IF Head(s) = "\n" THEN 1 ELSE 1 + linelen(Tail(s))

RECURSIVE readlines(_)
readlines(s) ==
  IF s = <<>> THEN <<>>
  ELSE <<SubSeq(s, 1, linelen(s))>> \o readlines(SubSeq(s, linelen(s) + 1, Len(s)))

\* ------------------------------------------------------- bigram_model

\* bigram_counts[prev][curr] += 1 on the nested defaultdict
bump_bigram(bc, prev, curr) ==
  LET inner == IF prev \in DOMAIN bc THEN bc[prev] ELSE EmptyMap
      old == IF curr \in DOMAIN inner THEN inner[curr] ELSE 0
      new == [c \in DOMAIN inner \cup {curr} |->
                IF c = curr THEN old + 1 ELSE inner[c]]
  IN [q \in DOMAIN bc \cup {prev} |-> IF q = prev THEN new ELSE bc[q]]

\* prev_counts[prev] += 1 on the defaultdict
bump_prev(pc, prev) ==
  [q \in DOMAIN pc \cup {prev} |->
     IF q = prev THEN (IF prev \in DOMAIN pc THEN pc[prev] ELSE 0) + 1
     ELSE pc[q]]

\* the loop over the words of one line, prev starting at INIT
RECURSIVE count_words(_, _, _)
count_words(cs, prev, words) ==
  IF words = <<>> THEN cs
  ELSE count_words(
         [cs EXCEPT !.bigram_counts = bump_bigram(@, prev, Head(words)),
                    !.prev_counts = bump_prev(@, prev)],
         Head(words), Tail(words))

\* one iteration of "for line in f"
count_line(cs, line) ==
  IF strip(line) = <<>> THEN cs
  ELSE LET words == split(strip(line))
       IN count_words([cs EXCEPT !.vocab = @ \cup Range(words)], INIT, words)

next_vocab(cs) == cs.vocab \cup {UNKNOWN}

\* smooth without the UNKNOWN of next_vocab ("len(vocab)")
smooth_without_unknown(cs) == Cardinality(cs.vocab)

smooth(cs) == Cardinality(next_vocab(cs))

prev_vocab(cs) == DOMAIN cs.prev_counts \cup {INIT, UNKNOWN}

\* temp with the two keys swapped
temp_swapped(cs, prev, curr) ==
  IF curr \in DOMAIN cs.bigram_counts /\ prev \in DOMAIN cs.bigram_counts[curr]
  THEN cs.bigram_counts[curr][prev] ELSE 0

\* bigram_counts.get(prev, {}).get(curr, 0)
temp(cs, prev, curr) ==
  IF prev \in DOMAIN cs.bigram_counts /\ curr \in DOMAIN cs.bigram_counts[prev]
  THEN cs.bigram_counts[prev][curr] ELSE 0

denom(cs, prev) ==
  (IF prev \in DOMAIN cs.prev_counts THEN cs.prev_counts[prev] ELSE 0) + smooth(cs)

\* the table of step 3; ord is the order in which the set next_vocab
\* enumerates (the same set object is iterated for every row)
build_table(cs, ord) ==
  [prev \in prev_vocab(cs) |->
     [i \in 1..Len(ord) |-> <<ord[i], <<temp(cs, prev, ord[i]) + 1, denom(cs, prev)>>>>]]

\* the enumeration orders of a set: its permutations
Orders(S) ==
  {o \in [1..Cardinality(S) -> S] : \A i, j \in 1..Cardinality(S) : o[i] = o[j] => i = j}

NoCounts == [bigram_counts |-> EmptyMap, prev_counts |-> EmptyMap, vocab |-> {}]

RECURSIVE count_file(_, _)
count_file(cs, lines) ==
  IF lines = <<>> THEN cs ELSE count_file(count_line(cs, Head(lines)), Tail(lines))

\* every table bigram_model can return for a text
bigram_model(text) ==
  LET cs == count_file(NoCounts, readlines(text))
  IN {build_table(cs, ord) : ord \in Orders(next_vocab(cs))}

\* --------------------------------------------------- _get_row, _get_prob

\* _get_row without the fallback to the UNKNOWN row
_get_row_no_fallback(table, prev) ==
  IF prev \in DOMAIN table THEN table[prev] ELSE <<>>

_get_row(table, prev) ==
  IF prev \in DOMAIN table THEN table[prev]
  ELSE IF UNKNOWN \in DOMAIN table THEN table[UNKNOWN] ELSE <<>>

_get_prob(table, prev, curr) ==
  LET row == _get_row(table, prev)
  IN IF curr \in Keys(row) THEN Val(row, curr)
     ELSE IF UNKNOWN \in Keys(row) THEN Val(row, UNKNOWN) ELSE Zero

\* ------------------------------------------------------ log arithmetic

\* float("-inf"): the logarithm of no positive fraction
NegInf == Zero

RECURSIVE gcd(_, _)
gcd(a, b) == IF b = 0 THEN a ELSE gcd(b, a % b)

\* the fraction p in lowest terms (the same number)
Reduce(p) == LET g == gcd(p[1], p[2]) IN <<p[1] \div g, p[2] \div g>>

\* math.log(p) if p > 0 else float("-inf")
log_or_neginf(p) == IF IsZero(p) THEN NegInf ELSE Reduce(p)

\* l + m on floats holding logarithms or -inf
log_add(l, m) == IF IsZero(l) \/ IsZero(m) THEN NegInf ELSE Reduce(Times(l, m))

\* -------------------------------------------------------- sorted(...)

\* sorted(row.items(), key=lambda kv: kv[1], reverse=True): a stable sort, so
\* items of equal probability keep the order in which the row enumerates them
RECURSIVE insert_desc(_, _, _)
insert_desc(s, it, i) ==
  IF i > Len(s) \/ Less(s[i][2], it[2])
  THEN SubSeq(s, 1, i - 1) \o <<it>> \o SubSeq(s, i, Len(s))
  ELSE insert_desc(s, it, i + 1)

RECURSIVE sorted_desc(_)
sorted_desc(row) ==
  IF row = <<>> THEN <<>>
  ELSE insert_desc(sorted_desc(SubSeq(row, 1, Len(row) - 1)), row[Len(row)], 1)

\* ------------------------------------------------- the shared constraints

\* passes with the budget test off by one ("punct_used > max_punct")
passes_late_budget(tok, punct_used, max_punct, used_nonpunct) ==
  /\ tok # INIT
  /\ ~(_is_punct(tok) /\ punct_used > max_punct)
  /\ ~(~_is_punct(tok) /\ tok \in used_nonpunct)

\* the three "continue" tests of the candidate loops: INIT, the punctuation
\* budget, the used non-punctuation tokens
passes(tok, punct_used, max_punct, used_nonpunct) ==
  /\ tok # INIT
  /\ ~(_is_punct(tok) /\ punct_used >= max_punct)
  /\ ~(~_is_punct(tok) /\ tok \in used_nonpunct)

\* the index of the first candidate, from i on, that a candidate loop does not
\* skip, 0 when it skips all; the first loop of a step also skips UNKNOWN
RECURSIVE first_from(_, _, _, _, _, _)
first_from(cands, punct_used, max_punct, used_nonpunct, unknown_too, i) ==
  IF i > Len(cands) THEN 0
  ELSE IF /\ passes(cands[i][1], punct_used, max_punct, used_nonpunct)
          /\ unknown_too \/ cands[i][1] # UNKNOWN
       THEN i
       ELSE first_from(cands, punct_used, max_punct, used_nonpunct, unknown_too, i + 1)

\* the state both generators start from (lines 120-130 and 214-224);
\* math.log raises ValueError on 0.0, which ends the call at line 123 or 217
enter(table, seed, n) ==
  IF n <= 0
  THEN [pc |-> "returned", seq |-> <<>>, logp |-> One, max_punct |-> 0,
        punct_used |-> 0, used_nonpunct |-> {}, prev |-> UNKNOWN,
        via |-> <<>>, row |-> <<>>, p_use |-> One]
  ELSE LET p == IF seed # <<>> THEN _get_prob(table, INIT, seed) ELSE One
       IN [pc |-> IF IsZero(p) THEN "raised" ELSE "loop",
           seq |-> <<seed>>,
           logp |-> Reduce(p),
           max_punct |-> n \div 5,
           punct_used |-> IF ~IsZero(p) /\ _is_punct(seed) THEN 1 ELSE 0,
           used_nonpunct |-> IF ~IsZero(p) /\ ~_is_punct(seed) THEN {seed} ELSE {},
           prev |-> IF IsZero(p) THEN UNKNOWN ELSE seed,
           via |-> <<"seed">>,
           row |-> _get_row(table, INIT),
           p_use |-> p]

\* commit with the punctuation count starting over at every other token
commit_resets_budget(table, st, tok, how) ==
  LET p == _get_prob(table, st.prev, tok)
  IN [st EXCEPT !.seq = Append(@, tok),
                !.logp = log_add(@, log_or_neginf(p)),
                !.punct_used = IF _is_punct(tok) THEN @ + 1 ELSE 0,
                !.used_nonpunct = IF _is_punct(tok) THEN @ ELSE @ \cup {tok},
                !.prev = tok,
                !.via = Append(@, how),
                !.row = _get_row(table, st.prev),
                !.p_use = p]

\* commit without "used_nonpunct.add(chosen)"
commit_forgets_used(table, st, tok, how) ==
  LET p == _get_prob(table, st.prev, tok)
  IN [st EXCEPT !.seq = Append(@, tok),
                !.logp = log_add(@, log_or_neginf(p)),
                !.punct_used = IF _is_punct(tok) THEN @ + 1 ELSE @,
                !.prev = tok,
                !.via = Append(@, how),
                !.row = _get_row(table, st.prev),
                !.p_use = p]

\* lines 181-193 and 293-302: append the chosen token and account for it
commit(table, st, tok, how) ==
  LET p == _get_prob(table, st.prev, tok)
  IN [st EXCEPT !.seq = Append(@, tok),
                !.logp = log_add(@, log_or_neginf(p)),
                !.punct_used = IF _is_punct(tok) THEN @ + 1 ELSE @,
                !.used_nonpunct = IF _is_punct(tok) THEN @ ELSE @ \cup {tok},
                !.prev = tok,
                !.via = Append(@, how),
                !.row = _get_row(table, st.prev),
                !.p_use = p]

\* ------------------------------------------------- sequence_generator

\* greedy_choice without the "if tok == UNKNOWN: continue" of the first loop
greedy_choice_takes_unknown(table, st) ==
  LET candidates == sorted_desc(_get_row(table, st.prev))
      i2 == first_from(candidates, st.punct_used, st.max_punct, st.used_nonpunct, TRUE, 1)
  IN IF i2 # 0 THEN <<candidates[i2][1], "first">> ELSE <<UNKNOWN, "fallback">>

\* the choice of one iteration (lines 133-179): <<token, branch>>
greedy_choice(table, st) ==
  LET candidates == sorted_desc(_get_row(table, st.prev))
      i1 == first_from(candidates, st.punct_used, st.max_punct, st.used_nonpunct, FALSE, 1)
      i2 == first_from(candidates, st.punct_used, st.max_punct, st.used_nonpunct, TRUE, 1)
  IN IF i1 # 0 THEN <<candidates[i1][1], "first">>
     ELSE IF i2 # 0 THEN <<candidates[i2][1], "relaxed">>
     ELSE <<UNKNOWN, "fallback">>

greedy_step(table, st) ==
  LET c == greedy_choice(table, st) IN commit(table, st, c[1], c[2])

\* --------------------------------------------- sequence_generator_plus

\* best_log_next of a first-step candidate tok (lines 249-266)
best_log_next(table, st, tok) ==
  LET new_punct_used == st.punct_used + (IF _is_punct(tok) THEN 1 ELSE 0)
      new_used_nonpunct ==
        st.used_nonpunct \cup (IF ~_is_punct(tok) THEN {tok} ELSE {})
      cand2 == sorted_desc(_get_row(table, tok))
      j == first_from(cand2, new_punct_used, st.max_punct, new_used_nonpunct, TRUE, 1)
  IN IF j = 0 THEN NegInf ELSE log_or_neginf(cand2[j][2])

\* line 268: a best_log_next of -inf counts as 0.0
score(table, st, tok, p12) ==
  LET next == best_log_next(table, st, tok)
  IN log_add(log_or_neginf(p12), IF IsZero(next) THEN One ELSE next)

\* the loop of lines 234-273 from candidate i on: the index of best_tok in
\* cand1, 0 for None
RECURSIVE best_from(_, _, _, _, _, _)
best_from(table, st, cand1, i, best, best_score) ==
  IF i > Len(cand1) THEN best
  ELSE LET tok == cand1[i][1]
           sc == score(table, st, tok, cand1[i][2])
       IN IF /\ passes(tok, st.punct_used, st.max_punct, st.used_nonpunct)
             /\ tok # UNKNOWN
             /\ Less(best_score, sc)
          THEN best_from(table, st, cand1, i + 1, i, sc)
          ELSE best_from(table, st, cand1, i + 1, best, best_score)

\* the choice of one iteration (lines 227-291): <<token, branch>>
plus_choice(table, st) ==
  LET cand1 == sorted_desc(_get_row(table, st.prev))
      i1 == best_from(table, st, cand1, 1, 0, NegInf)
      i2 == first_from(cand1, st.punct_used, st.max_punct, st.used_nonpunct, TRUE, 1)
  IN IF i1 # 0 THEN <<cand1[i1][1], "first">>
     ELSE IF i2 # 0 THEN <<cand1[i2][1], "relaxed">>
     ELSE <<UNKNOWN, "fallback">>

plus_step(table, st) ==
  LET c == plus_choice(table, st) IN commit(table, st, c[1], c[2])

\* the while test of lines 132 and 226, and the return
finish(st, n) ==
  IF st.pc = "loop" /\ Len(st.seq) >= n THEN [st EXCEPT !.pc = "returned"] ELSE st

\* ------------------------------------------------------------ the inputs

MaxFileLen == 7

MaxLength == 10

Alphabet == {"a", ",", " ", "\n"}

\* the corpus of the end-to-end example: "the cat sat", "the dog ran"
ExampleFile ==
  <<"t", "h", "e", " ", "c", "a", "t", " ", "s", "a", "t", "\n",
    "t", "h", "e", " ", "d", "o", "g", " ", "r", "a", "n", "\n">>

Files == UNION {[1..n -> Alphabet] : n \in 0..MaxFileLen} \cup {ExampleFile}

WordA == <<"a">>

WordB == <<"b">>

Comma == <<",">>

Dots == <<".", ".">>

Mixed == <<"a", ",">>

Quarter == <<1, 4>>

Half == <<1, 2>>

\* corpora whose tables the generators are run on
GenFiles ==
  { <<>>,
    <<"a", " ", "b", " ", ",", "\n", "b", " ", ",", " ", "b", "\n">>,
    <<"a", " ", ",", " ", "a", "\n", "b", " ", "a", " ", "a">>,
    <<"a", " ", "b", "\n", "\n", ",", " ", "a", " ", "b", "\n">> }

BuiltTables == UNION {bigram_model(f) : f \in GenFiles}

\* rows of hand-built tables: a plain row, a row with UNKNOWN tied with a
\* word, a row with INIT and punctuation, a row of zeros, a row led by
\* punctuation whose only word has probability 0, an empty row
HandRows ==
  { <<<<WordA, Half>>, <<WordB, Quarter>>, <<Comma, Quarter>>>>,
    <<<<WordB, Half>>, <<UNKNOWN, Quarter>>, <<WordA, Quarter>>>>,
    <<<<INIT, Half>>, <<Comma, Quarter>>, <<Dots, <<1, 8>>>>, <<Mixed, <<1, 8>>>>>>,
    <<<<WordA, Zero>>, <<WordB, Zero>>>>,
    <<<<Comma, Half>>, <<UNKNOWN, Quarter>>, <<Dots, Quarter>>, <<WordB, Zero>>>>,
    <<>> }

HandRowKeys == {INIT, UNKNOWN, WordA, WordB}

HandTables == UNION {[R -> HandRows] : R \in SUBSET HandRowKeys}

Tables == BuiltTables \cup HandTables

Seeds == {UNKNOWN, WordA, Comma, <<"z">>, INIT}

Lengths == -1..MaxLength

\* a generator that has not been called
NotCalled ==
  [pc |-> "call", seq |-> <<>>, logp |-> One, max_punct |-> 0, punct_used |-> 0,
   used_nonpunct |-> {}, prev |-> UNKNOWN, via |-> <<>>, row |-> <<>>,
   p_use |-> One]

Idle == [NotCalled EXCEPT !.pc = "idle"]

\* --------------------------------------------------- building the table

InitBuild ==
  /\ file \in Files
  /\ line_no = 0
  /\ bigram_counts = EmptyMap
  /\ prev_counts = EmptyMap
  /\ vocab = {}
  /\ bpc = "reading"
  /\ bigram_probs = EmptyMap
  /\ init_word = UNKNOWN
  /\ length = 0
  /\ gen = [greedy |-> Idle, plus |-> Idle]

Counts == [bigram_counts |-> bigram_counts, prev_counts |-> prev_counts, vocab |-> vocab]

\* lines 48-61: one line of the file
ReadLine ==
  /\ bpc = "reading"
  /\ line_no < Len(readlines(file))
  /\ LET cs == count_line(Counts, readlines(file)[line_no + 1])
     IN /\ bigram_counts' = cs.bigram_counts
        /\ prev_counts' = cs.prev_counts
        /\ vocab' = cs.vocab
  /\ line_no' = line_no + 1
  /\ UNCHANGED <<file, bpc, bigram_probs, init_word, length, gen>>

\* lines 63-85: smoothing, in one of the orders the set next_vocab enumerates
BuildTable ==
  /\ bpc = "reading"
  /\ line_no = Len(readlines(file))
  /\ \E ord \in Orders(next_vocab(Counts)) :
       bigram_probs' = build_table(Counts, ord)
  /\ bpc' = "built"
  /\ UNCHANGED <<file, line_no, bigram_counts, prev_counts, vocab, init_word, length, gen>>

NextBuild == ReadLine \/ BuildTable

SpecBuild == InitBuild /\ [][NextBuild]_vars

\* ------------------------------------------------------ the generators

Init ==
  /\ file = <<>>
  /\ line_no = 0
  /\ bigram_counts = EmptyMap
  /\ prev_counts = EmptyMap
  /\ vocab = {}
  /\ bpc = "given"
  /\ bigram_probs \in Tables
  /\ init_word \in Seeds
  /\ length \in Lengths
  /\ gen = [greedy |-> NotCalled, plus |-> NotCalled]

\* sequence_generator(bigram_probs, init_word, length) up to its loop
GreedyCall ==
  /\ gen.greedy.pc = "call"
  /\ gen' = [gen EXCEPT !.greedy = finish(enter(bigram_probs, init_word, length), length)]
  /\ UNCHANGED <<build_vars, input_vars>>

\* one iteration of the loop of sequence_generator
GreedyStep ==
  /\ gen.greedy.pc = "loop"
  /\ gen' = [gen EXCEPT !.greedy = finish(greedy_step(bigram_probs, @), length)]
  /\ UNCHANGED <<build_vars, input_vars>>

\* sequence_generator_plus on the same arguments, once sequence_generator is over
PlusCall ==
  /\ gen.greedy.pc \in {"returned", "raised"}
  /\ gen.plus.pc = "call"
  /\ gen' = [gen EXCEPT !.plus = finish(enter(bigram_probs, init_word, length), length)]
  /\ UNCHANGED <<build_vars, input_vars>>

\* one iteration of the loop of sequence_generator_plus
PlusStep ==
  /\ gen.plus.pc = "loop"
  /\ gen' = [gen EXCEPT !.plus = finish(plus_step(bigram_probs, @), length)]
  /\ UNCHANGED <<build_vars, input_vars>>

Next == GreedyCall \/ GreedyStep \/ PlusCall \/ PlusStep

Spec == Init /\ [][Next]_vars

\* ================================================================ claims

Gens == {"greedy", "plus"}

Max(a, b) == IF a >= b THEN a ELSE b

\* the punctuation tokens of a sequence, counted position by position
PunctCount(seq) == Cardinality({i \in 1..Len(seq) : _is_punct(seq[i])})

\* C1: for every table, seed and length N, each generator returns; what it
\* returns has exactly N tokens, the first being the seed, when N > 0, and is
\* the empty sequence with log-probability 0.0 when N <= 0.
C1_LengthContract ==
  \A g \in Gens :
    /\ gen[g].pc # "raised"
    /\ gen[g].pc = "returned" =>
         IF length > 0
         THEN Len(gen[g].seq) = length /\ gen[g].seq[1] = init_word
         ELSE gen[g].seq = <<>> /\ gen[g].logp = One

\* C2 as stated: the punctuation tokens of the sequence, seed included, never
\* exceed floor(N/5), after every step of either loop.
C2_PunctBudget_Original ==
  \A g \in Gens :
    gen[g].pc \in {"loop", "returned"} /\ length > 0 =>
      PunctCount(gen[g].seq) <= length \div 5

\* C2 amended: the seed is emitted whatever it is, so the bound is floor(N/5)
\* or, for a punctuation seed, 1 if that is more.
C2_PunctBudget ==
  \A g \in Gens :
    gen[g].pc \in {"loop", "returned"} /\ length > 0 =>
      PunctCount(gen[g].seq) <=
        Max(length \div 5, IF _is_punct(init_word) THEN 1 ELSE 0)

\* a run that spent its whole budget in the loop and then had to pass over a
\* punctuation token of the row it was in
C2_Witness ==
  \E g \in Gens :
    LET st == gen[g] IN
      /\ st.pc = "returned"
      /\ ~_is_punct(init_word)
      /\ PunctCount(st.seq) = length \div 5
      /\ \E k \in 2..(Len(st.seq) - 1) :
           /\ _is_punct(st.seq[k])
           /\ \E t \in Keys(_get_row(bigram_probs, st.seq[k])) : _is_punct(t)

\* C3: no non-punctuation token is at two positions of the sequence, except
\* UNKNOWN at a position the absolute fallback produced.
C3_NoRepeat ==
  \A g \in Gens :
    \A i, j \in 1..Len(gen[g].seq) :
      i < j /\ gen[g].seq[i] = gen[g].seq[j] /\ ~_is_punct(gen[g].seq[i]) =>
        gen[g].seq[j] = UNKNOWN /\ gen[g].via[j] = "fallback"

\* a returned sequence in which a used word was the most probable of a later
\* row, and in which the fallback repeated UNKNOWN
C3_Witness ==
  \E g \in Gens :
    LET st == gen[g] IN
      /\ st.pc = "returned"
      /\ \E i, j \in 1..Len(st.seq) :
           i < j /\ st.seq[i] = UNKNOWN /\ st.seq[j] = UNKNOWN /\ st.via[j] = "fallback"
      /\ \E k \in 2..Len(st.seq) :
           LET cands == sorted_desc(_get_row(bigram_probs, st.seq[k - 1]))
           IN cands # <<>> /\ \E i \in 1..(k - 1) : st.seq[i] = cands[1][1]

\* ------------------------------------------- the corpus, read as a text

\* the word occurrences of a text: its maximal runs of non-blank characters
WordSpans(text) ==
  {sp \in (1..Len(text)) \X (1..Len(text)) :
     /\ sp[1] <= sp[2]
     /\ \A k \in sp[1]..sp[2] : text[k] \notin whitespace
     /\ sp[1] = 1 \/ text[sp[1] - 1] \in whitespace
     /\ sp[2] = Len(text) \/ text[sp[2] + 1] \in whitespace}

WordAt(text, sp) == SubSeq(text, sp[1], sp[2])

\* the token before an occurrence: the word before it on its line, else INIT
PrevOf(text, spans, sp) ==
  LET before == {q \in spans :
                   /\ q[2] < sp[1]
                   /\ \A k \in (q[2] + 1)..(sp[1] - 1) : text[k] # "\n"}
  IN IF before = {} THEN INIT
     ELSE WordAt(text, CHOOSE q \in before : \A r \in before : r[2] <= q[2])

\* the word occurrences of a text, each as <<place, previous token, token>>
Occurrences(text) ==
  LET spans == WordSpans(text)
  IN {<<sp, PrevOf(text, spans, sp), WordAt(text, sp)>> : sp \in spans}

CorpusCount(occ, p, c) == Cardinality({o \in occ : o[2] = p /\ o[3] = c})

CorpusTotal(occ, p) == Cardinality({o \in occ : o[2] = p})

CorpusV(occ) == {o[3] : o \in occ} \cup {UNKNOWN}

CorpusPrevs(occ) == {o[2] : o \in occ}

The == <<"t", "h", "e">>

Cat == <<"c", "a", "t">>

\* C4: the table bigram_model returns has the rows INIT, UNKNOWN and the
\* tokens seen as a previous token, every row has the keys V = vocabulary plus
\* UNKNOWN, and entry (p, c) is (count(p,c) + 1) / (totalCount(p) + |V|); for
\* the lines "the cat sat" and "the dog ran" entry (the, cat) is 2/8.
C4_Table ==
  bpc = "built" =>
    LET occ == Occurrences(file)
        V == CorpusV(occ)
    IN /\ DOMAIN bigram_probs = CorpusPrevs(occ) \cup {INIT, UNKNOWN}
       /\ \A p \in DOMAIN bigram_probs :
            /\ Keys(bigram_probs[p]) = V
            /\ Len(bigram_probs[p]) = Cardinality(V)
            /\ \A c \in V :
                 Same(Val(bigram_probs[p], c),
                      <<CorpusCount(occ, p, c) + 1, CorpusTotal(occ, p) + Cardinality(V)>>)
       /\ file = ExampleFile => Same(Val(bigram_probs[The], Cat), <<2, 8>>)

\* the table of the example, with its row of a token that was never a previous
\* token (UNKNOWN) and no row for the line-final "sat"
C4_Witness ==
  /\ bpc = "built"
  /\ file = ExampleFile
  /\ Same(Val(bigram_probs[The], Cat), <<1, 4>>)
  /\ Same(Val(bigram_probs[UNKNOWN], Cat), <<1, 6>>)
  /\ <<"s", "a", "t">> \notin DOMAIN bigram_probs

AddFrac(p, q) == Reduce(<<p[1] * q[2] + q[1] * p[2], p[2] * q[2]>>)

RECURSIVE RowSum(_)
RowSum(row) == IF row = <<>> THEN Zero ELSE AddFrac(row[1][2], RowSum(Tail(row)))

RECURSIVE SumOf(_, _)
SumOf(f, S) ==
  IF S = {} THEN 0 ELSE LET x == CHOOSE x \in S : TRUE IN f[x] + SumOf(f, S \ {x})

\* C5: every row of the table sums to exactly 1 as fractions; the counts of
\* the pairs of a previous token add up to its total count.
C5_RowsSumToOne ==
  /\ \A p \in DOMAIN prev_counts :
       SumOf(bigram_counts[p], DOMAIN bigram_counts[p]) = prev_counts[p]
  /\ bpc = "built" => \A p \in DOMAIN bigram_probs : RowSum(bigram_probs[p]) = One

\* a table with a row of unequal entries, built from two lines and a blank one
C5_Witness ==
  /\ bpc = "built"
  /\ Len(readlines(file)) >= 3
  /\ \E p \in DOMAIN bigram_probs : \E i, j \in 1..Len(bigram_probs[p]) :
       Less(bigram_probs[p][i][2], bigram_probs[p][j][2])
  /\ \E p \in DOMAIN prev_counts : p # INIT /\ prev_counts[p] >= 2

\* C6: on a table built by bigram_model, the joint probability returned by
\* sequence_generator_plus is at least the one returned by sequence_generator
\* for the same seed and length.
C6_PlusAtLeastGreedy ==
  /\ bigram_probs \in BuiltTables
  /\ gen.greedy.pc = "returned"
  /\ gen.plus.pc = "returned"
  => ~Less(gen.plus.logp, gen.greedy.logp)

\* ------------------------------------- the lookups, as the claims word them

RowOf(table, prev) ==
  CASE prev \in DOMAIN table -> table[prev]
    [] prev \notin DOMAIN table /\ UNKNOWN \in DOMAIN table -> table[UNKNOWN]
    [] OTHER -> <<>>

\* the entries of a row as a set of <<token, probability>>
Entries(row) == Range(row)

ProbOf(table, prev, curr) ==
  LET es == Entries(RowOf(table, prev))
  IN IF \E e \in es : e[1] = curr THEN (CHOOSE e \in es : e[1] = curr)[2]
     ELSE IF \E e \in es : e[1] = UNKNOWN THEN (CHOOSE e \in es : e[1] = UNKNOWN)[2]
     ELSE Zero

\* the token before position k of a sequence (INIT before the seed)
Before(seq, k) == IF k = 1 THEN INIT ELSE seq[k - 1]

\* C7: the row resolved at every step is the row of prev, else the UNKNOWN
\* row, else an empty row; the probability used at every step is the entry of
\* curr in that row, else the entry of UNKNOWN, else 0.0; the table is never
\* changed.
C7_Lookup ==
  /\ [](\A g \in Gens :
          LET st == gen[g]
              k == Len(st.seq)
          IN st.pc \in {"loop", "returned", "raised"} /\ k >= 1 =>
               /\ st.row = RowOf(bigram_probs, Before(st.seq, k))
               /\ k > 1 \/ init_word # UNKNOWN =>
                    st.p_use = ProbOf(bigram_probs, Before(st.seq, k), st.seq[k]))
  /\ [][bigram_probs' = bigram_probs]_vars

\* a seed step that takes both fallbacks: the table has no INIT row, and its
\* UNKNOWN row has no entry for the seed
C7_Witness ==
  /\ gen.greedy.pc = "loop"
  /\ Len(gen.greedy.seq) = 1
  /\ INIT \notin DOMAIN bigram_probs
  /\ UNKNOWN \in DOMAIN bigram_probs
  /\ init_word \notin Keys(bigram_probs[UNKNOWN])
  /\ UNKNOWN \in Keys(bigram_probs[UNKNOWN])
  /\ gen.greedy.p_use = Quarter

\* a probability of 0 was looked up on the way to the sequence of st
ZeroSeen(st) ==
  \E k \in 1..Len(st.seq) :
    /\ k > 1 \/ init_word # UNKNOWN
    /\ IsZero(ProbOf(bigram_probs, Before(st.seq, k), st.seq[k]))

\* C8: a probability of exactly 0, at the INIT->seed step or later, is never
\* an error: the call goes on, and from that step on the log-probability is
\* negative infinity.
C8_ZeroIsNoError ==
  \A g \in Gens :
    /\ gen[g].pc # "raised"
    /\ gen[g].pc \in {"loop", "returned"} /\ length > 0 /\ ZeroSeen(gen[g]) =>
         gen[g].logp = NegInf

\* ------------------------------- the choice of a step, as the claims word it

UsedAt(seq, k) == {seq[i] : i \in {j \in 1..(k - 1) : ~_is_punct(seq[j])}}

PunctAt(seq, k) == Cardinality({i \in 1..(k - 1) : _is_punct(seq[i])})

\* admissible: not INIT, no punctuation once the budget is used up, no used
\* non-punctuation token
Admissible(tok, used, punct) ==
  /\ tok # INIT
  /\ _is_punct(tok) => punct < length \div 5
  /\ ~_is_punct(tok) => tok \notin used

\* the admissible entries other than UNKNOWN of the row resolved at position k
AdmWords(seq, k) ==
  {e \in Entries(RowOf(bigram_probs, seq[k - 1])) :
     Admissible(e[1], UsedAt(seq, k), PunctAt(seq, k)) /\ e[1] # UNKNOWN}

\* C9: in sequence_generator, when the row of a step has an admissible token
\* other than UNKNOWN the chosen token is one of the most probable of them;
\* UNKNOWN is chosen only when there is none; INIT is never chosen.
C9_GreedyChoice ==
  LET seq == gen.greedy.seq IN
    \A k \in 2..Len(seq) :
      LET adm == AdmWords(seq, k) IN
        /\ seq[k] # INIT
        /\ adm # {} =>
             \E e \in adm : e[1] = seq[k] /\ \A f \in adm : ~Less(e[2], f[2])
        /\ seq[k] = UNKNOWN => adm = {}

\* a run that passed over INIT, the most probable entry of a row, for a word,
\* and that later settled for an UNKNOWN of a row
C9_Witness ==
  LET st == gen.greedy IN
    /\ st.pc = "returned"
    /\ \E k \in 2..Len(st.seq) :
         /\ st.via[k] = "first"
         /\ \E e \in Entries(RowOf(bigram_probs, st.seq[k - 1])) :
              e[1] = INIT /\ Less(ProbOf(bigram_probs, st.seq[k - 1], st.seq[k]), e[2])
    /\ \E k \in 2..Len(st.seq) : st.via[k] = "relaxed" /\ st.seq[k] = UNKNOWN

\* the entries a second step could take after tok at position k
NextAfter(seq, k, tok) ==
  {f \in Entries(RowOf(bigram_probs, tok)) :
     Admissible(f[1],
                UsedAt(seq, k) \cup (IF _is_punct(tok) THEN {} ELSE {tok}),
                PunctAt(seq, k) + (IF _is_punct(tok) THEN 1 ELSE 0))}

BestOf(es) == (CHOOSE e \in es : \A f \in es : ~Less(e[2], f[2]))[2]

\* exp(score) of C10: P(tok|prev) times the highest probability of a
\* continuation, times 1 when there is no continuation
ClaimScore(seq, k, e) ==
  LET next == NextAfter(seq, k, e[1])
  IN IF next = {} THEN e[2] ELSE Times(e[2], BestOf(next))

\* C10: at a step of sequence_generator_plus whose row has an admissible
\* token other than UNKNOWN of positive probability, the committed token has
\* the highest score ln P(tok|prev) + bestNextLog(tok) of them, bestNextLog
\* being the log of the most probable admissible continuation and 0 when
\* there is none; of the tokens of that score it has the highest P(tok|prev).
C10_PlusChoice ==
  LET seq == gen.plus.seq IN
    \A k \in 2..Len(seq) :
      LET adm == AdmWords(seq, k) IN
        (\E e \in adm : ~IsZero(e[2])) =>
          \E e \in adm :
            /\ e[1] = seq[k]
            /\ \A f \in adm :
                 /\ ~Less(ClaimScore(seq, k, e), ClaimScore(seq, k, f))
                 /\ Same(ClaimScore(seq, k, e), ClaimScore(seq, k, f)) => ~Less(e[2], f[2])

\* the score line 268 computes: a most probable continuation of probability
\* 0 counts like no continuation
CodeScore(seq, k, e) ==
  LET next == NextAfter(seq, k, e[1])
  IN IF next = {} \/ IsZero(BestOf(next)) THEN e[2] ELSE Times(e[2], BestOf(next))

\* what the steps of sequence_generator_plus do maximize
PlusChoice_AsCoded ==
  LET seq == gen.plus.seq IN
    \A k \in 2..Len(seq) :
      LET adm == AdmWords(seq, k) IN
        (\E e \in adm : ~IsZero(e[2])) =>
          \E e \in adm :
            /\ e[1] = seq[k]
            /\ \A f \in adm :
                 /\ ~Less(CodeScore(seq, k, e), CodeScore(seq, k, f))
                 /\ Same(CodeScore(seq, k, e), CodeScore(seq, k, f)) => ~Less(e[2], f[2])

\* ------------------------------------------------ what holds beside C1, C8

\* the length contract of C1 for the calls that return
LengthContract_OnReturn ==
  \A g \in Gens :
    gen[g].pc = "returned" =>
      /\ Len(gen[g].via) = Len(gen[g].seq)
      /\ IF length > 0
         THEN Len(gen[g].seq) = length /\ gen[g].seq[1] = init_word
         ELSE gen[g].seq = <<>> /\ gen[g].logp = One

\* the part of C8 about the steps of the loop: after a probability of 0 the
\* log-probability is negative infinity for good
ZeroInLoop_IsNegInf ==
  \A g \in Gens :
    gen[g].pc \in {"loop", "returned"} /\ length > 0 /\ ZeroSeen(gen[g]) =>
      gen[g].logp = NegInf

\* --------------------------------------------------- the calls as a whole

\* the loop of lines 132-193, run to its end
RECURSIVE greedy_loop(_, _, _)
greedy_loop(table, st, n) ==
  IF st.pc # "loop" THEN st
  ELSE greedy_loop(table, finish(greedy_step(table, st), n), n)

\* sequence_generator(bigram_probs, init_word, length), from call to return
sequence_generator(table, seed, n) ==
  greedy_loop(table, finish(enter(table, seed, n), n), n)

\* the loop of lines 226-302, run to its end
RECURSIVE plus_loop(_, _, _)
plus_loop(table, st, n) ==
  IF st.pc # "loop" THEN st
  ELSE plus_loop(table, finish(plus_step(table, st), n), n)

\* sequence_generator_plus(bigram_probs, init_word, length), from call to return
sequence_generator_plus(table, seed, n) ==
  plus_loop(table, finish(enter(table, seed, n), n), n)

\* what a call gives its caller: the sequence and the log-probability
Returned(st) == <<st.seq, st.logp>>

\* two tables equal as mappings: the same rows with the same entries, in
\* whatever order each row enumerates them
SameMapping(t1, t2) ==
  /\ DOMAIN t1 = DOMAIN t2
  /\ \A p \in DOMAIN t1 : Entries(t1[p]) = Entries(t2[p])

\* C11: for two tables equal as mappings whose rows enumerate their entries
\* in different orders, each generator returns the same sequence and the same
\* log-probability for the same seed and length.
C11_OrderFree ==
  /\ gen.greedy.pc = "returned" =>
       \A t2 \in Tables :
         SameMapping(t2, bigram_probs) =>
           LET st2 == sequence_generator(t2, init_word, length)
           IN st2.pc = "returned" /\ Returned(st2) = Returned(gen.greedy)
  /\ gen.plus.pc = "returned" =>
       \A t2 \in Tables :
         SameMapping(t2, bigram_probs) =>
           LET st2 == sequence_generator_plus(t2, init_word, length)
           IN st2.pc = "returned" /\ Returned(st2) = Returned(gen.plus)

\* the calls as a whole are the calls the steps add up to
Calls_AreSteps ==
  /\ gen.greedy.pc \in {"returned", "raised"} =>
       gen.greedy = sequence_generator(bigram_probs, init_word, length)
  /\ gen.plus.pc \in {"returned", "raised"} =>
       gen.plus = sequence_generator_plus(bigram_probs, init_word, length)

\* ------------------------------------------------- UNKNOWN, once emitted

\* all rows have the same key set and all entries are positive
UniformPositive(table) ==
  /\ \A p, q \in DOMAIN table : Keys(table[p]) = Keys(table[q])
  /\ \A p \in DOMAIN table : \A i \in 1..Len(table[p]) : ~IsZero(table[p][i][2])

\* C12: on a table whose rows all have the same key set and whose entries
\* are all positive, once either generator has emitted UNKNOWN at a position
\* after the seed, every later position of its sequence is UNKNOWN too.
C12_UnknownAbsorbs ==
  UniformPositive(bigram_probs) =>
    \A g \in Gens :
      \A i \in 2..Len(gen[g].seq) :
        gen[g].seq[i] = UNKNOWN =>
          \A j \in i..Len(gen[g].seq) : gen[g].seq[j] = UNKNOWN

\* both generators, on a table of equal positive rows with words and
\* punctuation, emitted words, then UNKNOWN from the relaxed loop once no key
\* of the rows was admissible, then UNKNOWN again
C12_Witness ==
  /\ UniformPositive(bigram_probs)
  /\ UNKNOWN \in DOMAIN bigram_probs
  /\ \E t \in Keys(bigram_probs[UNKNOWN]) : _is_punct(t)
  /\ \A g \in Gens :
       LET st == gen[g] IN
         /\ st.pc = "returned"
         /\ \E i \in 3..(Len(st.seq) - 1) :
              /\ st.seq[i - 1] # UNKNOWN
              /\ st.seq[i] = UNKNOWN
              /\ st.via[i] = "relaxed"
              /\ st.seq[i + 1] = UNKNOWN
              /\ st.via[i + 1] = "fallback"

====
